---- MODULE Spec2Model ----
(***************************************************************************)
(* Smart Fitness Management System: the persistence and credential         *)
(* subsystem (src/data_manager.py, src/models.py).                         *)
(*                                                                         *)
(* State: the DataManager's in-memory registry (an insertion-ordered dict  *)
(* from username to a User object), the heap of User objects (callers keep *)
(* references to the objects they pass in or get back), the snapshot file  *)
(* and its sibling backup file.                                            *)
(***************************************************************************)
EXTENDS Integers, Sequences, FiniteSets, TLC

VARIABLES
    users,    \* DataManager.users: sequence of [key, ref], in insertion order
    heap,     \* the User objects; a ref is an index into this sequence
    file,     \* content at DataManager.data_file
    bak,      \* content at data_file + ".bak"
    last,     \* the last call that acted: its name, result, and I/O outcome
    hist,     \* the last successfully written snapshot, and how the last save ended
    faults,   \* I/O calls that have failed so far
    edits,    \* attribute edits callers have made so far
    threads,  \* concurrent callers: where each is inside its add_user call
    probe,    \* a text handed to _is_hashed, and what it returned
    gym       \* the gym manager of assignment_3.py: its classes and members

vars == <<users, heap, file, bak, last, hist, faults, edits, threads, probe, gym>>

(***************************************************************************)
(* Bounds of the model.                                                    *)
(***************************************************************************)
MaxObjs == 2        \* User objects alive in one process
MaxEdits == 1       \* attribute edits by callers (profile, password, collections)
MaxFaults == 1      \* I/O calls that fail
MaxHashDepth == 1   \* how often a credential is hashed over again
MaxCut == 1         \* a failed write stops after at most this many units
MaxItems == 2       \* workouts, meals and goals of a User in the round-trip runs
MaxClasses == 2     \* class sessions of the gym manager
MaxMembers == 2     \* members of the gym manager

(***************************************************************************)
(* Program constants.                                                      *)
(***************************************************************************)
HashLen == 64       \* len(hashlib.sha256(...).hexdigest())

Usernames == {"alice", "bob"}

(***************************************************************************)
(* Strings that serve as credentials.  A string is [d, base]: the text     *)
(* `base` hashed d times.  The base texts are two ordinary passwords and   *)
(* one password of 64 hexadecimal characters.  SHA-256 is taken to be      *)
(* collision free on these texts and to have no fixed point.               *)
(***************************************************************************)
Bases == {"pw1", "pw2", "c0ffee64"}

BaseLen(b) == IF b = "c0ffee64" THEN 64 ELSE 3

BaseIsHex(b) == b = "c0ffee64"

Str(b) == [d |-> 0, base |-> b]

\* a credential that is no str: a JSON number or null in a snapshot record.
\* len() and .encode() raise on it (TypeError, AttributeError)
NotAStr == [d |-> 0, base |-> "<number 12345>"]

IsStr(p) == p # NotAStr

StrLen(p) == IF p.d > 0 THEN HashLen ELSE BaseLen(p.base)

\* int(password, 16) does not raise ValueError
ParsesBase16(p) == p.d > 0 \/ BaseIsHex(p.base)

HashPassword(p) == [d |-> p.d + 1, base |-> p.base]

IsHashed(p) == StrLen(p) = HashLen /\ ParsesBase16(p)

(***************************************************************************)
(* Entity model (src/models.py).  An object is a record of its attributes; *)
(* a dict is a record of its values plus `absent`, the keys it lacks.      *)
(***************************************************************************)
NoneStr == "None"
Today == "2023-10-20"

Falsy(s) == s = NoneStr \/ s = ""

WorkoutInit(workout_type, duration, calories_burned, date, notes) ==
    [workout_type |-> workout_type, duration |-> duration,
     calories_burned |-> calories_burned, date |-> date, notes |-> notes]

WorkoutToDict(w) ==
    [workout_type |-> w.workout_type, duration |-> w.duration,
     calories_burned |-> w.calories_burned, date |-> w.date,
     notes |-> w.notes, absent |-> {}]

WorkoutFromDictOk(d) ==
    {"workout_type", "duration", "calories_burned", "date"} \cap d.absent = {}

WorkoutFromDict(d) ==
    WorkoutInit(d.workout_type, d.duration, d.calories_burned, d.date,
                IF "notes" \in d.absent THEN "" ELSE d.notes)

MealInit(meal_type, name, calories, proteins, carbs, fats, date) ==
    [meal_type |-> meal_type, name |-> name, calories |-> calories,
     proteins |-> proteins, carbs |-> carbs, fats |-> fats, date |-> date]

MealToDict(m) ==
    [meal_type |-> m.meal_type, name |-> m.name, calories |-> m.calories,
     proteins |-> m.proteins, carbs |-> m.carbs, fats |-> m.fats,
     date |-> m.date, absent |-> {}]

MealFromDictOk(d) ==
    {"meal_type", "name", "calories", "proteins", "carbs", "fats", "date"}
        \cap d.absent = {}

MealFromDict(d) ==
    MealInit(d.meal_type, d.name, d.calories, d.proteins, d.carbs, d.fats, d.date)

GoalInit(goal_type, target_value, deadline, start_date) ==
    [goal_type |-> goal_type, target_value |-> target_value,
     deadline |-> deadline,
     start_date |-> IF Falsy(start_date) THEN Today ELSE start_date,
     completed |-> FALSE]

GoalToDict(g) ==
    [goal_type |-> g.goal_type, target_value |-> g.target_value,
     deadline |-> g.deadline, start_date |-> g.start_date,
     completed |-> g.completed, absent |-> {}]

GoalFromDictOk(d) ==
    {"goal_type", "target_value", "deadline"} \cap d.absent = {}

\* faulty variant: the stored completion flag is not read back
GoalFromDictNotCompleted(d) ==
    GoalInit(d.goal_type, d.target_value, d.deadline,
             IF "start_date" \in d.absent THEN NoneStr ELSE d.start_date)

GoalFromDict(d) ==
    [GoalInit(d.goal_type, d.target_value, d.deadline,
              IF "start_date" \in d.absent THEN NoneStr ELSE d.start_date)
     EXCEPT !.completed = IF "completed" \in d.absent THEN FALSE ELSE d.completed]

UserInit(username, password, name, age, gender, height, weight, goals) ==
    [username |-> username, password |-> password, name |-> name, age |-> age,
     gender |-> gender, height |-> height, weight |-> weight,
     goals |-> goals, workouts |-> <<>>, meals |-> <<>>]

UserToDict(u) ==
    [username |-> u.username, password |-> u.password, name |-> u.name,
     age |-> u.age, gender |-> u.gender, height |-> u.height,
     weight |-> u.weight, goals |-> u.goals, workouts |-> u.workouts,
     meals |-> u.meals, absent |-> {}]

UserFromDictOk(d) ==
    {"username", "password", "name", "age", "gender", "height", "weight"}
        \cap d.absent = {}

UserFromDict(d) ==
    [UserInit(d.username, d.password, d.name, d.age, d.gender, d.height,
              d.weight, IF "goals" \in d.absent THEN <<>> ELSE d.goals)
     EXCEPT !.workouts = IF "workouts" \in d.absent THEN <<>> ELSE d.workouts,
            !.meals = IF "meals" \in d.absent THEN <<>> ELSE d.meals]

(***************************************************************************)
(* The registry: a Python dict, which keeps insertion order.               *)
(***************************************************************************)
Keys(us) == {us[i].key : i \in DOMAIN us}

Has(us, k) == k \in Keys(us)

Get(us, k) == us[CHOOSE i \in DOMAIN us : us[i].key = k].ref

Put(us, k, r) ==
    IF Has(us, k)
    THEN [i \in DOMAIN us |-> IF us[i].key = k THEN [key |-> k, ref |-> r] ELSE us[i]]
    ELSE Append(us, [key |-> k, ref |-> r])

\* faulty variant: every entry is removed
DelKeyAll(us, k) == <<>>

DelKey(us, k) == SelectSeq(us, LAMBDA e : e.key # k)

\* The registry by value: username -> the User it maps to
Registry(us, hp) == [k \in Keys(us) |-> hp[Get(us, k)]]

(***************************************************************************)
(* File contents.  The text json.dump writes for a dict is "{", one unit   *)
(* per item, "}"; a write that fails part way leaves a proper prefix of    *)
(* it.  utf8 = FALSE is a file whose bytes do not decode as text.          *)
(***************************************************************************)
Absent == [exists |-> FALSE, utf8 |-> TRUE, open |-> FALSE, entries |-> <<>>, close |-> FALSE]

EmptyFile == [Absent EXCEPT !.exists = TRUE]

BinaryFile == [EmptyFile EXCEPT !.utf8 = FALSE]

JsonText(data) ==
    [exists |-> TRUE, utf8 |-> TRUE, open |-> TRUE, entries |-> data, close |-> TRUE]

Min(a, b) == IF a < b THEN a ELSE b

\* os.path.getsize, in units
Size(c) ==
    IF ~c.utf8 THEN 1
    ELSE (IF c.open THEN 1 ELSE 0) + Len(c.entries) + (IF c.close THEN 1 ELSE 0)

\* the first k units of a text
Prefix(c, k) ==
    [exists |-> TRUE, utf8 |-> TRUE, open |-> c.open /\ k >= 1,
     entries |-> SubSeq(c.entries, 1, Min(k - (IF c.open THEN 1 ELSE 0), Len(c.entries))),
     close |-> c.close /\ k >= Size(c)]

\* what a write of text c leaves when it fails after the file was opened
Truncated(c, n) == Prefix(c, Min(n, Size(c) - 1))

\* json.load returns without JSONDecodeError
Parses(c) == c.utf8 /\ c.open /\ c.close

(***************************************************************************)
(* Snapshot codec (save_data lines 82-88, load_data lines 40-45).          *)
(***************************************************************************)
EncodeUser(u) ==
    [UserToDict(u) EXCEPT
        !.workouts = [i \in DOMAIN u.workouts |-> WorkoutToDict(u.workouts[i])],
        !.meals = [i \in DOMAIN u.meals |-> MealToDict(u.meals[i])],
        !.goals = [i \in DOMAIN u.goals |-> GoalToDict(u.goals[i])]]

\* faulty variant: only the entry stored last is written
EncodeLastOnly(us, hp) ==
    IF us = <<>> THEN <<>>
    ELSE <<[key |-> us[Len(us)].key, val |-> EncodeUser(hp[us[Len(us)].ref])]>>

Encode(us, hp) ==
    [i \in DOMAIN us |-> [key |-> us[i].key, val |-> EncodeUser(hp[us[i].ref])]]

DictList(d, k, list) == IF k \in d.absent THEN <<>> ELSE list

DecodeUserOk(d) ==
    /\ \A i \in DOMAIN DictList(d, "workouts", d.workouts) : WorkoutFromDictOk(d.workouts[i])
    /\ \A i \in DOMAIN DictList(d, "meals", d.meals) : MealFromDictOk(d.meals[i])
    /\ \A i \in DOMAIN DictList(d, "goals", d.goals) : GoalFromDictOk(d.goals[i])
    /\ UserFromDictOk(d)

DecodeUser(d) ==
    UserFromDict(
        [d EXCEPT
            !.workouts = [i \in DOMAIN DictList(d, "workouts", d.workouts) |->
                             WorkoutFromDict(d.workouts[i])],
            !.meals = [i \in DOMAIN DictList(d, "meals", d.meals) |->
                          MealFromDict(d.meals[i])],
            !.goals = [i \in DOMAIN DictList(d, "goals", d.goals) |->
                          GoalFromDict(d.goals[i])],
            !.absent = d.absent \ {"workouts", "meals", "goals"}])

(***************************************************************************)
(* Persistence engine (DataManager.load_data, DataManager.save_data).      *)
(* dm is the DataManager with its disk: [users, heap, file, bak].  io      *)
(* holds what the operating system does to each I/O call of the            *)
(* operation.  An operation yields [dm, ret, ref, save, bk]: the new dm,   *)
(* the value returned, the User returned (0: none), and how the save and   *)
(* the backup copy inside it ended ("none": not attempted).                *)
(***************************************************************************)
Result(dm, ret, ref, save, bk) ==
    [dm |-> dm, ret |-> ret, ref |-> ref, save |-> save, bk |-> bk, read |-> "none"]

\* the call does not return: an exception leaves the method
Raised(dm) == Result(dm, "raised", 0, "none", "none")

RECURSIVE LoadEntries(_, _, _)
\* lines 40-45: each item becomes a new User object stored under its key;
\* the first item that raises ends the loop
LoadEntries(us, hp, es) ==
    IF es = <<>> THEN [ok |-> TRUE, users |-> us, heap |-> hp]
    ELSE IF ~DecodeUserOk(Head(es).val) THEN [ok |-> FALSE, users |-> us, heap |-> hp]
    ELSE LoadEntries(Put(us, Head(es).key, Len(hp) + 1),
                     Append(hp, DecodeUser(Head(es).val)), Tail(es))

Loaded(dm) == [Result(dm, "None", 0, "none", "none") EXCEPT !.read = "ok"]

\* faulty variant: the unparseable file is deleted instead of renamed
OnDecodeErrorDeletes(dm, io) ==
    IF Size(dm.file) = 0 THEN Loaded([dm EXCEPT !.users = <<>>])
    ELSE IF io.mv = "ok"
    THEN [Loaded([dm EXCEPT !.users = <<>>, !.file = Absent]) EXCEPT !.bk = "ok"]
    ELSE [Loaded([dm EXCEPT !.users = <<>>]) EXCEPT !.bk = "failed"]

\* faulty variant: the registry is not emptied
OnDecodeErrorKeepsUsers(dm, io) ==
    IF Size(dm.file) = 0 THEN Loaded(dm)
    ELSE IF io.mv = "ok"
    THEN [Loaded([dm EXCEPT !.bak = dm.file, !.file = Absent]) EXCEPT !.bk = "ok"]
    ELSE [Loaded(dm) EXCEPT !.bk = "failed"]

\* lines 47-57: except json.JSONDecodeError
OnDecodeError(dm, io) ==
    IF Size(dm.file) = 0 THEN Loaded([dm EXCEPT !.users = <<>>])
    ELSE IF io.mv = "ok"
    THEN [Loaded([dm EXCEPT !.users = <<>>, !.bak = dm.file, !.file = Absent])
             EXCEPT !.bk = "ok"]
    ELSE [Loaded([dm EXCEPT !.users = <<>>]) EXCEPT !.bk = "failed"]

LoadData(dm, io) ==
    IF ~dm.file.exists
    THEN Result([dm EXCEPT !.users = <<>>], "None", 0, "none", "none")
    ELSE IF io.rd = "fail"
    THEN \* open or read raises OSError: except FileNotFoundError / except Exception
         [Result([dm EXCEPT !.users = <<>>], "None", 0, "none", "none")
             EXCEPT !.read = "failed"]
    ELSE IF ~dm.file.utf8
    THEN \* read raises UnicodeDecodeError: except Exception
         Result([dm EXCEPT !.users = <<>>], "None", 0, "none", "none")
    ELSE IF ~Parses(dm.file) THEN OnDecodeError(dm, io)
    ELSE LET r == LoadEntries(dm.users, dm.heap, dm.file.entries)
         IN  IF r.ok THEN Loaded([dm EXCEPT !.users = r.users, !.heap = r.heap])
             ELSE \* a record raises: except Exception
                  Loaded([dm EXCEPT !.users = <<>>])

\* faulty variant: an existing backup is not overwritten
BackupStepKeepsOld(dm, io) ==
    IF ~dm.file.exists THEN [bak |-> dm.bak, bk |-> "none"]
    ELSE IF io.bk = "open" THEN [bak |-> dm.bak, bk |-> "failed"]
    ELSE IF ~dm.file.utf8 THEN [bak |-> EmptyFile, bk |-> "failed"]
    ELSE IF io.bk = "mid" THEN [bak |-> Truncated(dm.file, io.bkn), bk |-> "failed"]
    ELSE [bak |-> IF dm.bak.exists THEN dm.bak ELSE dm.file, bk |-> "ok"]

\* lines 71-78: the backup copy; the result is the backup file and how it ended
BackupStep(dm, io) ==
    IF ~dm.file.exists THEN [bak |-> dm.bak, bk |-> "none"]
    ELSE IF io.bk = "open" THEN [bak |-> dm.bak, bk |-> "failed"]
    ELSE IF ~dm.file.utf8 THEN [bak |-> EmptyFile, bk |-> "failed"]
    ELSE IF io.bk = "mid" THEN [bak |-> Truncated(dm.file, io.bkn), bk |-> "failed"]
    ELSE [bak |-> dm.file, bk |-> "ok"]

\* lines 80-97: the write of the new snapshot
WriteStep(dm, io) ==
    LET text == JsonText(Encode(dm.users, dm.heap))
    IN  IF io.wr = "open" THEN [file |-> dm.file, ok |-> FALSE]
        ELSE IF io.wr = "mid" THEN [file |-> Truncated(text, io.wrn), ok |-> FALSE]
        ELSE [file |-> text, ok |-> TRUE]

\* faulty variant: a failed backup copy ends the save
SaveDataNeedsBackup(dm, io) ==
    LET b == BackupStep(dm, io)
        w == WriteStep(dm, io)
    IN  IF b.bk = "failed"
        THEN Result([dm EXCEPT !.bak = b.bak], "False", 0, "none", b.bk)
        ELSE Result([dm EXCEPT !.bak = b.bak, !.file = w.file],
                    IF w.ok THEN "True" ELSE "False", 0,
                    IF w.ok THEN "ok" ELSE "failed", b.bk)

SaveData(dm, io) ==
    LET b == BackupStep(dm, io)
        w == WriteStep(dm, io)
    IN  Result([dm EXCEPT !.bak = b.bak, !.file = w.file],
               IF w.ok THEN "True" ELSE "False", 0,
               IF w.ok THEN "ok" ELSE "failed", b.bk)

(***************************************************************************)
(* Registry operations.                                                    *)
(***************************************************************************)
\* faulty variant: no check for an existing username
AddUserNoCheck(dm, ref, io) ==
    LET user == dm.heap[ref]
    IN  SaveData([dm EXCEPT
                     !.heap[ref].password = HashPassword(user.password),
                     !.users = Put(dm.users, user.username, ref)], io)

\* faulty variant: the password is stored as given (the variant of assignment_4.py)
AddUserPlain(dm, ref, io) ==
    LET user == dm.heap[ref]
    IN  IF Has(dm.users, user.username)
        THEN Result(dm, "False", 0, "none", "none")
        ELSE SaveData([dm EXCEPT !.users = Put(dm.users, user.username, ref)], io)

\* faulty variant: the entry is taken out again when the save fails
AddUserRollsBack(dm, ref, io) ==
    LET user == dm.heap[ref]
        r == SaveData([dm EXCEPT
                          !.heap[ref].password = HashPassword(user.password),
                          !.users = Put(dm.users, user.username, ref)], io)
    IN  IF Has(dm.users, user.username)
        THEN Result(dm, "False", 0, "none", "none")
        ELSE IF r.save = "ok" THEN r
        ELSE [r EXCEPT !.dm.users = dm.users]

\* faulty variant: the entry is stored once the save has succeeded
AddUserStoresAfterSave(dm, ref, io) ==
    LET user == dm.heap[ref]
        r == SaveData([dm EXCEPT !.heap[ref].password = HashPassword(user.password)], io)
    IN  IF Has(dm.users, user.username)
        THEN Result(dm, "False", 0, "none", "none")
        ELSE IF r.save = "ok"
        THEN [r EXCEPT !.dm.users = Put(dm.users, user.username, ref)]
        ELSE r

\* faulty variant: the entry is keyed by the display name
AddUserKeyedByName(dm, ref, io) ==
    LET user == dm.heap[ref]
    IN  IF Has(dm.users, user.username)
        THEN Result(dm, "False", 0, "none", "none")
        ELSE SaveData([dm EXCEPT
                          !.heap[ref].password = HashPassword(user.password),
                          !.users = Put(dm.users, user.name, ref)], io)

AddUser(dm, ref, io) ==
    LET user == dm.heap[ref]
    IN  IF Has(dm.users, user.username)
        THEN Result(dm, "False", 0, "none", "none")
        ELSE IF ~IsStr(user.password)
        THEN Raised(dm)    \* line 106: password.encode()
        ELSE SaveData([dm EXCEPT
                          !.heap[ref].password = HashPassword(user.password),
                          !.users = Put(dm.users, user.username, ref)], io)

\* faulty variant: the supplied credential is always stored as given
UpdatedPasswordAsGiven(user, current_user) == user.password

\* lines 118-121
UpdatedPassword(user, current_user) ==
    IF user.password # current_user.password /\ ~IsHashed(user.password)
    THEN HashPassword(user.password)
    ELSE user.password

\* faulty variant: an unknown username is inserted
UpdateUserUpsert(dm, ref, io) ==
    LET user == dm.heap[ref]
    IN  IF ~Has(dm.users, user.username)
        THEN SaveData([dm EXCEPT !.users = Put(dm.users, user.username, ref)], io)
        ELSE LET current_user == dm.heap[Get(dm.users, user.username)]
             IN  SaveData([dm EXCEPT
                              !.heap[ref].password = UpdatedPassword(user, current_user),
                              !.users = Put(dm.users, user.username, ref)], io)

UpdateUser(dm, ref, io) ==
    LET user == dm.heap[ref]
    IN  IF ~Has(dm.users, user.username)
        THEN Result(dm, "False", 0, "none", "none")
        ELSE LET current_user == dm.heap[Get(dm.users, user.username)]
             IN  IF user.password # current_user.password /\ ~IsStr(user.password)
                 THEN Raised(dm)    \* line 120: len(password)
                 ELSE SaveData([dm EXCEPT
                         !.heap[ref].password = UpdatedPassword(user, current_user),
                         !.users = Put(dm.users, user.username, ref)], io)

\* faulty variant: the registry is saved also when there was nothing to delete
DeleteUserAlwaysSaves(dm, username, io) ==
    IF ~Has(dm.users, username)
    THEN [SaveData(dm, io) EXCEPT !.ret = "False"]
    ELSE SaveData([dm EXCEPT !.users = DelKey(dm.users, username)], io)

DeleteUser(dm, username, io) ==
    IF ~Has(dm.users, username)
    THEN Result(dm, "False", 0, "none", "none")
    ELSE SaveData([dm EXCEPT !.users = DelKey(dm.users, username)], io)

\* faulty variant: the entry found is taken out of the registry
GetUserPops(dm, username) ==
    IF Has(dm.users, username)
    THEN Result([dm EXCEPT !.users = DelKey(dm.users, username)],
                "User", Get(dm.users, username), "none", "none")
    ELSE Result(dm, "None", 0, "none", "none")

GetUser(dm, username) ==
    IF Has(dm.users, username)
    THEN Result(dm, "User", Get(dm.users, username), "none", "none")
    ELSE Result(dm, "None", 0, "none", "none")

\* faulty variant: an unknown username is reported with another value
NotFoundFalse(dm) == Result(dm, "False", 0, "none", "none")

\* lines 148-150
NotFound(dm) == Result(dm, "None", 0, "none", "none")

\* lines 168-169
InvalidPassword(dm) == Result(dm, "None", 0, "none", "none")

\* faulty variant: the stored digest is compared with the secret itself
CheckHashedPlain(dm, ref, password) ==
    IF dm.heap[ref].password = password
    THEN Result(dm, "User", ref, "none", "none")
    ELSE InvalidPassword(dm)

\* faulty variant: a secret equal to the stored text is accepted as well
CheckHashedThenPlain(dm, ref, password) ==
    IF dm.heap[ref].password = HashPassword(password)
          \/ dm.heap[ref].password = password
    THEN Result(dm, "User", ref, "none", "none")
    ELSE InvalidPassword(dm)

\* lines 153-158
CheckHashed(dm, ref, password) ==
    IF ~IsStr(password) THEN Raised(dm)    \* line 155: password.encode()
    ELSE IF dm.heap[ref].password = HashPassword(password)
    THEN Result(dm, "User", ref, "none", "none")
    ELSE InvalidPassword(dm)

\* faulty variant: a plaintext match logs the user in and upgrades nothing
CheckLegacyNoUpgrade(dm, ref, password, io) ==
    IF dm.heap[ref].password = password
    THEN Result(dm, "User", ref, "none", "none")
    ELSE InvalidPassword(dm)

\* faulty variant: the login fails when the upgraded credential is not saved
CheckLegacyNeedsSave(dm, ref, password, io) ==
    IF dm.heap[ref].password = password
    THEN LET up == UpdateUser([dm EXCEPT !.heap[ref].password = HashPassword(password)],
                              ref, io)
         IN  [Result(up.dm, IF up.ret = "True" THEN "User" ELSE "None",
                     IF up.ret = "True" THEN ref ELSE 0, up.save, up.bk)
                 EXCEPT !.read = up.read]
    ELSE InvalidPassword(dm)

\* lines 159-166
CheckLegacy(dm, ref, password, io) ==
    IF dm.heap[ref].password = password
    THEN LET up == UpdateUser([dm EXCEPT !.heap[ref].password = HashPassword(password)],
                              ref, io)
         IN  [Result(up.dm, "User", ref, up.save, up.bk) EXCEPT !.read = up.read]
    ELSE InvalidPassword(dm)

AuthenticateUser(dm, username, password, io) ==
    LET got == GetUser(dm, username)
    IN  IF got.ret = "None" THEN NotFound(dm)
        ELSE IF ~IsStr(dm.heap[got.ref].password)
        THEN Raised(dm)    \* line 153: len(user.password)
        ELSE IF IsHashed(dm.heap[got.ref].password)
        THEN CheckHashed(dm, got.ref, password)
        ELSE CheckLegacy(dm, got.ref, password, io)

(***************************************************************************)
(* Inputs: what callers pass in, what the disk holds at start-up, and what *)
(* the operating system does to an I/O call.                               *)
(***************************************************************************)
NewPasswords == {Str("pw1")}

ChangedPasswords == {Str("pw2"), Str("c0ffee64")}

AuthSecrets == {Str(b) : b \in Bases} \cup {HashPassword(Str("pw1"))}

NoPassword == Str("")

SampleWorkout == WorkoutInit("Running", 30, 350, "2023-10-15", "Morning run")

SampleMeal == MealInit("Breakfast", "Oatmeal", 350, 12, 45, 10, "2023-10-15")

SampleGoal == GoalInit("Weight loss", "Lose 5kg", "2023-12-31", NoneStr)

NewProfile(username, password) ==
    UserInit(username, password, "Test User", 25, "Male", 175, 70, <<>>)

\* a snapshot written before credentials were hashed
LegacyFile ==
    JsonText(<<[key |-> "alice", val |-> EncodeUser(NewProfile("alice", Str("pw1")))],
               [key |-> "bob", val |-> EncodeUser(NewProfile("bob", Str("c0ffee64")))]>>)

\* a snapshot whose second record lacks its username
MalformedFile ==
    JsonText(<<[key |-> "alice",
                val |-> EncodeUser(NewProfile("alice", HashPassword(Str("pw1"))))],
               [key |-> "bob",
                val |-> [EncodeUser(NewProfile("bob", Str("pw1")))
                            EXCEPT !.absent = {"username"}]]>>)

InitFiles == {Absent, EmptyFile, BinaryFile, LegacyFile, MalformedFile}

\* a snapshot whose first record carries a number where the credential goes
WrongTypeFile ==
    JsonText(<<[key |-> "alice", val |-> EncodeUser(NewProfile("alice", NotAStr))],
               [key |-> "bob", val |-> EncodeUser(NewProfile("bob", Str("pw1")))]>>)

\* the outcomes of one I/O call: it succeeds, it fails before the file was
\* opened, or (a write) it fails after n units were written
Outcomes ==
    {[r |-> "ok", n |-> 0], [r |-> "open", n |-> 0]}
    \cup {[r |-> "mid", n |-> n] : n \in 0..MaxCut}

\* with at most k failing calls
LoadIO(k) ==
    {io \in [rd : {"ok", "fail"}, mv : {"ok", "fail"}] :
        (IF io.rd = "fail" THEN 1 ELSE 0) + (IF io.mv = "fail" THEN 1 ELSE 0) <= k}

SaveIO(k) ==
    {[bk |-> b.r, bkn |-> b.n, wr |-> w.r, wrn |-> w.n] :
        <<b, w>> \in {x \in Outcomes \X Outcomes :
                         (IF x[1].r = "ok" THEN 0 ELSE 1)
                         + (IF x[2].r = "ok" THEN 0 ELSE 1) <= k}}

AllSaveIO == SaveIO(2)

AllLoadIO == LoadIO(2)

OkSave == [bk |-> "ok", bkn |-> 0, wr |-> "ok", wrn |-> 0]

OkLoad == [rd |-> "ok", mv |-> "ok"]

(***************************************************************************)
(* The state machine.                                                      *)
(***************************************************************************)
DM == [users |-> users, heap |-> heap, file |-> file, bak |-> bak]

NoDM(f, b) == [users |-> <<>>, heap |-> <<>>, file |-> f, bak |-> b]

Call(op, key, arg, pw, r) ==
    [op |-> op, ret |-> r.ret, save |-> r.save, bk |-> r.bk]

\* the I/O calls of an operation that failed
FaultsOf(r) ==
    (IF r.bk = "failed" THEN 1 ELSE 0) + (IF r.save = "failed" THEN 1 ELSE 0)
    + (IF r.read = "failed" THEN 1 ELSE 0)

History(r) ==
    IF r.save = "ok" THEN [good |-> r.dm.file, lastSave |-> "ok"]
    ELSE IF r.save = "failed" THEN [hist EXCEPT !.lastSave = "failed"]
    ELSE hist

\* the I/O outcomes, with at most k failing calls, an operation can meet when
\* r is its result with every call succeeding: one that attempts no save
\* meets none
SaveOutcomes(r, k) == IF r.save = "none" THEN {OkSave} ELSE SaveIO(k)

\* a call that returns without touching the object or the disk leaves the
\* state as it is
Commit(op, key, arg, pw, r) ==
    IF r.dm = DM /\ FaultsOf(r) = 0
    THEN UNCHANGED vars
    ELSE /\ users' = r.dm.users
         /\ heap' = r.dm.heap
         /\ file' = r.dm.file
         /\ bak' = r.dm.bak
         /\ last' = Call(op, key, arg, pw, r)
         /\ faults + FaultsOf(r) <= MaxFaults
         /\ hist' = History(r)
         /\ faults' = faults + FaultsOf(r)
         /\ UNCHANGED <<edits, threads, probe, gym>>

CallerStep(hp) ==
    /\ heap' = hp
    /\ last' = Call("caller", "", 0, NoPassword, Result(DM, "None", 0, "none", "none"))
    /\ UNCHANGED <<users, file, bak, hist, faults, threads, probe, gym>>

CallerEdit(hp) ==
    /\ edits < MaxEdits
    /\ edits' = edits + 1
    /\ CallerStep(hp)

\* callers that run on threads of their own
Threads == {1, 2}

\* no text has been handed to _is_hashed
NoProbe == [value |-> <<>>, result |-> "none"]

\* the gym manager at start-up: no class sessions, no members, no call made
NoGym ==
    [classes |-> <<>>, members |-> <<>>, last |-> [op |-> "none", ret |-> "none"]]

Idle == [pc |-> "idle", ref |-> 0, data |-> <<>>, ret |-> "none"]

\* DataManager(data_file): lines 29-32
InitFrom(files, ios) ==
    \E f0 \in files, io \in ios :
        LET r == LoadData(NoDM(f0, Absent), io)
        IN  /\ users = r.dm.users
            /\ heap = r.dm.heap
            /\ file = r.dm.file
            /\ bak = r.dm.bak
            /\ last = Call("__init__", "", 0, NoPassword, r)
            /\ hist = [good |-> Absent, lastSave |-> "none"]
            /\ faults = FaultsOf(r)
            /\ edits = 0
            /\ threads = [t \in Threads |-> Idle]
            /\ probe = NoProbe
            /\ gym = NoGym

Init == InitFrom(InitFiles, LoadIO(MaxFaults))

\* the same, on a snapshot with a credential of the wrong type
InitWrongType == InitFrom({WrongTypeFile}, LoadIO(MaxFaults))

\* the process ends and a new DataManager is opened on the same path
Restart ==
    \E r \in {LoadData(NoDM(file, bak), io) : io \in LoadIO(MaxFaults - faults)} :
        Commit("__init__", "", 0, NoPassword, r)

DoLoadData ==
    /\ Len(heap) + Len(file.entries) <= MaxObjs
    /\ \E r \in {LoadData(DM, io) : io \in LoadIO(MaxFaults - faults)} :
           Commit("load_data", "", 0, NoPassword, r)

DoSaveData ==
    \E io \in SaveOutcomes(SaveData(DM, OkSave), MaxFaults - faults) :
        Commit("save_data", "", 0, NoPassword, SaveData(DM, io))

\* a caller constructs a User
NewUser ==
    /\ Len(heap) < MaxObjs
    /\ \E username \in Usernames, password \in NewPasswords :
           CallerStep(Append(heap, NewProfile(username, password)))
    /\ UNCHANGED edits

\* a caller edits a User it holds: profile fields, password, collections
EditData ==
    \E ref \in DOMAIN heap :
        /\ heap[ref].name # "Updated Name"
        /\ CallerEdit([heap EXCEPT ![ref].name = "Updated Name",
                                   ![ref].age = 26,
                                   ![ref].workouts = Append(@, SampleWorkout),
                                   ![ref].meals = Append(@, SampleMeal),
                                   ![ref].goals = Append(@, SampleGoal)])

SetPassword ==
    \E ref \in DOMAIN heap, password \in ChangedPasswords :
        /\ heap[ref].password # password
        /\ CallerEdit([heap EXCEPT ![ref].password = password])

DoAddUser ==
    \E ref \in DOMAIN heap :
        /\ heap[ref].password.d < MaxHashDepth
        /\ \E io \in SaveOutcomes(AddUser(DM, ref, OkSave), MaxFaults - faults) :
               Commit("add_user", heap[ref].username, ref, heap[ref].password,
                      AddUser(DM, ref, io))

DoUpdateUser ==
    \E ref \in DOMAIN heap :
        \E io \in SaveOutcomes(UpdateUser(DM, ref, OkSave), MaxFaults - faults) :
            Commit("update_user", heap[ref].username, ref, heap[ref].password,
                   UpdateUser(DM, ref, io))

DoDeleteUser ==
    \E username \in Usernames :
        \E io \in SaveOutcomes(DeleteUser(DM, username, OkSave), MaxFaults - faults) :
            Commit("delete_user", username, 0, NoPassword,
                   DeleteUser(DM, username, io))

DoGetUser ==
    \E username \in Usernames :
        Commit("get_user", username, 0, NoPassword, GetUser(DM, username))

DoAuthenticateUser ==
    \E username \in Usernames, password \in AuthSecrets :
        \E io \in SaveOutcomes(AuthenticateUser(DM, username, password, OkSave),
                                MaxFaults - faults) :
            Commit("authenticate_user", username, 0, password,
                   AuthenticateUser(DM, username, password, io))

Next ==
    \/ Restart
    \/ DoLoadData
    \/ DoSaveData
    \/ NewUser
    \/ EditData
    \/ SetPassword
    \/ DoAddUser
    \/ DoUpdateUser
    \/ DoDeleteUser
    \/ DoGetUser
    \/ DoAuthenticateUser

Spec == Init /\ [][Next]_vars

SpecWrongType == InitWrongType /\ [][Next]_vars

\* the same, on a path that holds no snapshot yet: the registry starts empty
InitEmpty == InitFrom({Absent, EmptyFile}, LoadIO(MaxFaults))

SpecFromEmpty == InitEmpty /\ [][Next]_vars

\* the User objects the registry maps to
StoredRefs(us) == {us[i].ref : i \in DOMAIN us}

\* the usernames a caller may change a User to: one more than new Users get
Renames == Usernames \cup {"carol"}

\* a caller gives another username to a User that is not in the registry
SetUsername ==
    \E ref \in DOMAIN heap \ StoredRefs(users), username \in Renames :
        /\ heap[ref].username # username
        /\ CallerEdit([heap EXCEPT ![ref].username = username])

NextRenames ==
    \/ Next
    \/ SetUsername

SpecRenames == InitEmpty /\ [][NextRenames]_vars

(***************************************************************************)
(* Round trips of one User through the snapshot: a caller fills the        *)
(* User's collections, the registry is saved, and a new DataManager loads  *)
(* the snapshot.  Every I/O call succeeds.                                 *)
(***************************************************************************)
RTWorkouts == {SampleWorkout, WorkoutInit("Cycling", 45, 400, "2023-10-16", "")}

RTMeals == {SampleMeal}

RTGoals == {SampleGoal, GoalInit("Distance", "Run 10km", "2023-11-30", "2023-10-15")}

RTFiles ==
    {JsonText(<<[key |-> "alice",
                 val |-> EncodeUser(NewProfile("alice", HashPassword(Str("pw1"))))]>>)}

InitRoundTrip == InitFrom(RTFiles, {OkLoad})

RTAddWorkout ==
    /\ \E ref \in DOMAIN heap, w \in RTWorkouts :
           /\ Len(heap[ref].workouts) < MaxItems
           /\ CallerStep([heap EXCEPT ![ref].workouts = Append(@, w)])
    /\ UNCHANGED edits

RTAddMeal ==
    /\ \E ref \in DOMAIN heap, m \in RTMeals :
           /\ Len(heap[ref].meals) < MaxItems
           /\ CallerStep([heap EXCEPT ![ref].meals = Append(@, m)])
    /\ UNCHANGED edits

RTAddGoal ==
    /\ \E ref \in DOMAIN heap, g \in RTGoals :
           /\ Len(heap[ref].goals) < MaxItems
           /\ CallerStep([heap EXCEPT ![ref].goals = Append(@, g)])
    /\ UNCHANGED edits

\* goal.completed = True
RTCompleteGoal ==
    /\ \E ref \in DOMAIN heap :
           \E i \in DOMAIN heap[ref].goals :
               /\ ~heap[ref].goals[i].completed
               /\ CallerStep([heap EXCEPT ![ref].goals[i].completed = TRUE])
    /\ UNCHANGED edits

RTSave == Commit("save_data", "", 0, NoPassword, SaveData(DM, OkSave))

RTLoad == Commit("__init__", "", 0, NoPassword, LoadData(NoDM(file, bak), OkLoad))

NextRoundTrip ==
    \/ RTAddWorkout
    \/ RTAddMeal
    \/ RTAddGoal
    \/ RTCompleteGoal
    \/ RTSave
    \/ RTLoad

SpecRoundTrip == InitRoundTrip /\ [][NextRoundTrip]_vars

(***************************************************************************)
(* Concurrent callers.  DataManager takes no lock, so when add_user is     *)
(* called from two threads the interpreter may switch between them after   *)
(* any statement.  One step below is one statement of add_user or one      *)
(* stage of the save_data it calls; every I/O call succeeds.               *)
(***************************************************************************)
ThreadFiles == {Absent} \cup RTFiles

InitThreads == InitFrom(ThreadFiles, {OkLoad})

ThreadStep(t, rec) ==
    /\ threads' = [threads EXCEPT ![t] = rec]
    /\ UNCHANGED <<hist, faults, edits, probe, gym>>

\* the caller builds the User it is about to register
TCall(t) ==
    /\ threads[t].pc = "idle"
    /\ \E username \in Usernames, password \in NewPasswords :
           /\ heap' = Append(heap, NewProfile(username, password))
           /\ ThreadStep(t, [Idle EXCEPT !.pc = "check", !.ref = Len(heap) + 1])
    /\ UNCHANGED <<users, file, bak, last>>

\* lines 101-103
TCheck(t) ==
    /\ threads[t].pc = "check"
    /\ IF Has(users, heap[threads[t].ref].username)
       THEN /\ ThreadStep(t, [threads[t] EXCEPT !.pc = "done", !.ret = "False"])
            /\ last' = [op |-> "add_user", ret |-> "False", save |-> "none", bk |-> "none"]
       ELSE /\ ThreadStep(t, [threads[t] EXCEPT !.pc = "hash"])
            /\ UNCHANGED last
    /\ UNCHANGED <<users, heap, file, bak>>

\* line 106
THash(t) ==
    /\ threads[t].pc = "hash"
    /\ heap' = [heap EXCEPT ![threads[t].ref].password = HashPassword(@)]
    /\ ThreadStep(t, [threads[t] EXCEPT !.pc = "store"])
    /\ UNCHANGED <<users, file, bak, last>>

\* line 107
TStore(t) ==
    /\ threads[t].pc = "store"
    /\ users' = Put(users, heap[threads[t].ref].username, threads[t].ref)
    /\ ThreadStep(t, [threads[t] EXCEPT !.pc = "backup"])
    /\ UNCHANGED <<heap, file, bak, last>>

\* save_data, lines 71-78
TBackup(t) ==
    /\ threads[t].pc = "backup"
    /\ bak' = BackupStep(DM, OkSave).bak
    /\ ThreadStep(t, [threads[t] EXCEPT !.pc = "build"])
    /\ UNCHANGED <<users, heap, file, last>>

\* save_data, lines 82-88: the dict to write is built from the registry as it
\* is now
TBuild(t) ==
    /\ threads[t].pc = "build"
    /\ ThreadStep(t, [threads[t] EXCEPT !.pc = "write", !.data = Encode(users, heap)])
    /\ UNCHANGED <<users, heap, file, bak, last>>

\* save_data, lines 90-94, and the return of add_user, lines 108-111
TWrite(t) ==
    /\ threads[t].pc = "write"
    /\ file' = JsonText(threads[t].data)
    /\ ThreadStep(t, [threads[t] EXCEPT !.pc = "done", !.ret = "True", !.data = <<>>])
    /\ last' = [op |-> "add_user", ret |-> "True", save |-> "ok", bk |-> "none"]
    /\ UNCHANGED <<users, heap, bak>>

NextThreads ==
    \E t \in Threads :
        \/ TCall(t)
        \/ TCheck(t)
        \/ THash(t)
        \/ TStore(t)
        \/ TBackup(t)
        \/ TBuild(t)
        \/ TWrite(t)

SpecThreads == InitThreads /\ [][NextThreads]_vars

(***************************************************************************)
(* _is_hashed on the characters of a text.  A text is a sequence of        *)
(* characters; int(text, 16) follows the integer-literal grammar of the    *)
(* interpreter: white space around the number, a sign, a 0x prefix, and    *)
(* single underscores between digits are accepted, and any Unicode decimal *)
(* digit counts as its ASCII digit.                                        *)
(***************************************************************************)
HexDigits ==
    {"0", "1", "2", "3", "4", "5", "6", "7", "8", "9",
     "a", "b", "c", "d", "e", "f", "A", "B", "C", "D", "E", "F"}

Spaces == {" ", "\t", "\n"}

\* ARABIC-INDIC DIGIT THREE, one character
ArabicThree == "U+0663"

\* int() first maps each Unicode decimal digit to its ASCII digit
ToAscii(c) == IF c = ArabicThree THEN "3" ELSE c

RECURSIVE LStrip(_)
LStrip(s) == IF s # <<>> /\ Head(s) \in Spaces THEN LStrip(Tail(s)) ELSE s

RECURSIVE RStrip(_)
RStrip(s) ==
    IF s # <<>> /\ s[Len(s)] \in Spaces THEN RStrip(SubSeq(s, 1, Len(s) - 1)) ELSE s

DropSign(s) == IF s # <<>> /\ Head(s) \in {"+", "-"} THEN Tail(s) ELSE s

\* with base 16 a leading 0x or 0X is skipped, and one underscore after it
DropPrefix(s) ==
    IF Len(s) >= 2 /\ s[1] = "0" /\ s[2] \in {"x", "X"}
    THEN LET r == SubSeq(s, 3, Len(s))
         IN  IF r # <<>> /\ Head(r) = "_" THEN Tail(r) ELSE r
    ELSE s

\* at least one digit; underscores only singly and between digits
DigitsOk(s) ==
    /\ s # <<>>
    /\ \A i \in DOMAIN s : s[i] \in HexDigits \cup {"_"}
    /\ s[1] # "_" /\ s[Len(s)] # "_"
    /\ \A i \in 1..(Len(s) - 1) : ~(s[i] = "_" /\ s[i + 1] = "_")

\* int(password, 16) returns without ValueError
IntBase16Parses(s) ==
    DigitsOk(DropPrefix(DropSign(RStrip(LStrip([i \in DOMAIN s |-> ToAscii(s[i])])))))

\* lines 175-184
IsHashedText(s) ==
    IF Len(s) = HashLen /\ IntBase16Parses(s) THEN "True" ELSE "False"

Fill(c, k) == [i \in 1..k |-> c]

\* a text of n characters: h, digits, m, digits, t
Make(h, m, t, c, n) ==
    LET k == n - Len(h) - Len(m) - Len(t)
    IN  h \o Fill(c, k \div 2) \o m \o Fill(c, k - (k \div 2)) \o t

Heads ==
    {<<>>, <<"+">>, <<"-">>, <<" ">>, <<"0", "x">>, <<"0", "X">>, <<"-", "0", "x">>,
     <<"0", "x", "_">>, <<"_">>, <<"+", " ">>, <<"x">>}

Mids == {<<>>, <<"_">>, <<"_", "_">>, <<" ">>, <<"g">>, <<"-">>, <<ArabicThree>>}

Tails == {<<>>, <<" ">>, <<"\n">>, <<"_">>, <<"z">>}

Texts ==
    {Make(h, m, t, c, n) :
        h \in Heads, m \in Mids, t \in Tails, c \in {"a", "7", "F"},
        n \in (HashLen - 1)..(HashLen + 1)}
    \cup {<<>>, <<"p", "w", "1">>}

InitIsHashed == InitFrom({Absent}, {OkLoad})

\* a caller holds a text
GiveText ==
    /\ probe = NoProbe
    /\ \E s \in Texts : probe' = [value |-> s, result |-> "none"]
    /\ UNCHANGED <<users, heap, file, bak, last, hist, faults, edits, threads, gym>>

DoIsHashed ==
    /\ probe # NoProbe /\ probe.result = "none"
    /\ probe' = [probe EXCEPT !.result = IsHashedText(probe.value)]
    /\ UNCHANGED <<users, heap, file, bak, last, hist, faults, edits, threads, gym>>

NextIsHashed ==
    \/ GiveText
    \/ DoIsHashed

SpecIsHashed == InitIsHashed /\ [][NextIsHashed]_vars

(***************************************************************************)
(* The gym manager (src/assignment_3.py).  A class session and a member    *)
(* are objects, named by their place in gym.classes and gym.members; the   *)
(* lists enrolled_members and class_bookings hold such names.  A cancelled *)
(* member leaves the list `members` (listed = FALSE) and stays an object.  *)
(* capacity is the text typed in for it, read with int() where it is used. *)
(***************************************************************************)
Capacities == {"-1", "0", "1", "2", "many"}

\* int(capacity) does not raise ValueError
Numeric(capacity) == capacity # "many"

\* int(capacity)
IntOf(capacity) ==
    CASE capacity = "-1" -> 0 - 1
      [] capacity = "0" -> 0
      [] capacity = "1" -> 1
      [] capacity = "2" -> 2

FitnessClassInit(capacity) ==
    [capacity |-> capacity, current_enrollments |-> 0, enrolled_members |-> <<>>]

MemberInit == [class_bookings |-> <<>>, listed |-> TRUE]

\* x in list
In(list, x) == \E i \in DOMAIN list : list[i] = x

\* list.remove(x): the first occurrence goes
Remove(list, x) ==
    LET i == CHOOSE j \in DOMAIN list :
                 list[j] = x /\ \A h \in 1..(j - 1) : list[h] # x
    IN  SubSeq(list, 1, i - 1) \o SubSeq(list, i + 1, Len(list))

GymResult(g, ret) == [g |-> g, ret |-> ret]

\* FitnessClass.enroll_member
EnrollMember(g, c, m) ==
    LET cls == g.classes[c]
    IN  IF In(cls.enrolled_members, m) THEN GymResult(g, "False")
        ELSE IF ~Numeric(cls.capacity) THEN GymResult(g, "raised")
        ELSE IF cls.current_enrollments >= IntOf(cls.capacity) THEN GymResult(g, "False")
        ELSE GymResult(
                 [g EXCEPT
                     !.classes[c].enrolled_members = Append(@, m),
                     !.classes[c].current_enrollments = @ + 1,
                     !.members[m].class_bookings =
                         IF In(@, c) THEN @ ELSE Append(@, c)],
                 "True")

\* faulty variant: the member books without looking at the capacity
BookClassNoCapacityCheck(g, m, c) ==
    IF In(g.members[m].class_bookings, c) THEN GymResult(g, "False")
    ELSE LET e == EnrollMember([g EXCEPT !.members[m].class_bookings = Append(@, c)],
                               c, m)
         IN  GymResult(e.g, IF e.ret = "raised" THEN "raised" ELSE "True")

\* member.book_class
BookClass(g, m, c) ==
    IF In(g.members[m].class_bookings, c) THEN GymResult(g, "False")
    ELSE IF ~Numeric(g.classes[c].capacity) THEN GymResult(g, "raised")
    ELSE IF g.classes[c].current_enrollments >= IntOf(g.classes[c].capacity)
    THEN GymResult(g, "False")
    ELSE LET e == EnrollMember([g EXCEPT !.members[m].class_bookings = Append(@, c)],
                               c, m)
         IN  GymResult(e.g, IF e.ret = "raised" THEN "raised" ELSE "True")

\* FitnessClass.cancel_booking
CancelBooking(g, c, m) ==
    IF ~In(g.classes[c].enrolled_members, m) THEN GymResult(g, "False")
    ELSE GymResult(
             [g EXCEPT
                 !.classes[c].enrolled_members = Remove(@, m),
                 !.classes[c].current_enrollments = @ - 1,
                 !.members[m].class_bookings = IF In(@, c) THEN Remove(@, c) ELSE @],
             "True")

RECURSIVE CancelAll(_, _, _)
\* for cls in mem.class_bookings[:]: cls.cancel_booking(mem)
CancelAll(g, m, bookings) ==
    IF bookings = <<>> THEN g
    ELSE CancelAll(CancelBooking(g, Head(bookings), m).g, m, Tail(bookings))

\* cancel_membership, confirmed with "y"
CancelMembership(g, m) ==
    GymResult([CancelAll(g, m, g.members[m].class_bookings)
                  EXCEPT !.members[m].listed = FALSE], "None")

GymStep(op, r) ==
    /\ gym' = [r.g EXCEPT !.last = [op |-> op, ret |-> r.ret]]
    /\ UNCHANGED <<users, heap, file, bak, last, hist, faults, edits, threads, probe>>

InitGym == InitFrom({Absent}, {OkLoad})

\* add_class_session
AddClassSession ==
    /\ Len(gym.classes) < MaxClasses
    /\ \E capacity \in Capacities :
           GymStep("add_class_session",
                   GymResult([gym EXCEPT !.classes = Append(@, FitnessClassInit(capacity))],
                             "None"))

\* add_member
AddMember ==
    /\ Len(gym.members) < MaxMembers
    /\ GymStep("add_member",
               GymResult([gym EXCEPT !.members = Append(@, MemberInit)], "None"))

DoBookClass ==
    \E m \in DOMAIN gym.members, c \in DOMAIN gym.classes :
        GymStep("book_class", BookClass(gym, m, c))

DoEnrollMember ==
    \E m \in DOMAIN gym.members, c \in DOMAIN gym.classes :
        GymStep("enroll_member", EnrollMember(gym, c, m))

DoCancelBooking ==
    \E m \in DOMAIN gym.members, c \in DOMAIN gym.classes :
        GymStep("cancel_booking", CancelBooking(gym, c, m))

DoCancelMembership ==
    \E m \in DOMAIN gym.members :
        /\ gym.members[m].listed
        /\ GymStep("cancel_membership", CancelMembership(gym, m))

NextGym ==
    \/ AddClassSession
    \/ AddMember
    \/ DoBookClass
    \/ DoEnrollMember
    \/ DoCancelBooking
    \/ DoCancelMembership

SpecGym == InitGym /\ [][NextGym]_vars

(***************************************************************************)
(* Properties.                                                             *)
(***************************************************************************)
Mutators == {"add_user", "update_user", "delete_user"}

\* the registry a new DataManager opened on the same path holds
Reloaded(f, b) ==
    LET r == LoadData(NoDM(f, b), OkLoad) IN Registry(r.dm.users, r.dm.heap)

\* the snapshot text f records credential p for username k
SnapshotHas(f, k, p) ==
    /\ Parses(f)
    /\ \E i \in DOMAIN f.entries : f.entries[i].key = k /\ f.entries[i].val.password = p

Stored(k) == heap[Get(users, k)]

\* C1: immediately after an add_user, update_user or delete_user that returned
\* success, the snapshot file parses, holds one record per key of the in-memory
\* registry, and a new DataManager opened on it loads a registry equal, user by
\* user and field by field, to the in-memory one.
C1_SnapshotEqualsRegistry ==
    (last.op \in Mutators /\ last.ret = "True") =>
        /\ Parses(file)
        /\ {file.entries[i].key : i \in DOMAIN file.entries} = Keys(users)
        /\ Reloaded(file, bak) = Registry(users, heap)

C1_Witness ==
    /\ last.op = "update_user" /\ last.ret = "True"
    /\ Cardinality(Keys(users)) = 2
    /\ \E k \in Keys(users) : Len(Stored(k).workouts) > 0 /\ Stored(k).age = 26
    /\ Reloaded(file, bak) = Registry(users, heap)

\* C2: a save_data call that returns failure leaves the snapshot file with
\* exactly the content it had before the call.
C2_FailedSaveKeepsSnapshot ==
    [][(last'.op = "save_data" /\ last'.ret = "False") => file' = file]_vars

\* C3: whenever the most recent save failed, the content of the last
\* successfully written snapshot is still on disk, at the snapshot path or at
\* the backup path.
C3_LastGoodSnapshotIntact ==
    (hist.lastSave = "failed" /\ hist.good.exists) =>
        (file = hist.good \/ bak = hist.good)

\* C4 as claimed: after a save_data call that finds an existing snapshot file
\* and returns success, the backup file holds the snapshot's content from
\* before the call.
C4_BackupHoldsPreSave ==
    [][(last'.op = "save_data" /\ file.exists /\ last'.ret = "True")
          => bak' = file]_vars

\* C4 as amended: the same, for the calls whose backup copy completed.
C4_BackupHoldsPreSaveWhenCopied ==
    [][(last'.op = "save_data" /\ file.exists /\ last'.ret = "True"
           /\ last'.bk = "ok") => bak' = file]_vars

C4_Witness ==
    /\ last.op = "save_data" /\ last.ret = "True" /\ last.bk = "ok"
    /\ Parses(bak) /\ Parses(file) /\ bak # file

C6_DuplicateAddRejected ==
    \A ref \in DOMAIN heap, io \in AllSaveIO :
        Has(users, heap[ref].username) =>
            LET r == AddUser(DM, ref, io)
            IN  r.ret = "False" /\ r.dm.users = users /\ r.dm.heap = heap

C6_Witness ==
    \E ref \in DOMAIN heap :
        /\ Has(users, heap[ref].username)
        /\ Get(users, heap[ref].username) # ref
        /\ heap[ref] # Stored(heap[ref].username)
        /\ AddUser(DM, ref, OkSave).ret = "False"

\* C7: add_user with a new username and password p, when it returns success,
\* has stored hash(p), which is not p, in memory and in the snapshot, and
\* authenticate_user(username, p) then returns that User.
C7_AddStoresHash ==
    \A ref \in DOMAIN heap, io \in AllSaveIO :
        LET user == heap[ref]
            r == AddUser(DM, ref, io)
        IN  (~Has(users, user.username) /\ r.ret = "True") =>
                /\ Has(r.dm.users, user.username)
                /\ Get(r.dm.users, user.username) = ref
                /\ r.dm.heap[ref].password = HashPassword(user.password)
                /\ r.dm.heap[ref].password # user.password
                /\ SnapshotHas(r.dm.file, user.username, HashPassword(user.password))
                /\ \A io2 \in AllSaveIO :
                       LET a == AuthenticateUser(r.dm, user.username, user.password, io2)
                       IN  a.ret = "User" /\ a.ref = ref

C7_Witness ==
    /\ last.op = "add_user" /\ last.ret = "True"
    /\ \E k \in Keys(users) :
           /\ Stored(k).password = HashPassword(Str("pw1"))
           /\ SnapshotHas(file, k, HashPassword(Str("pw1")))
           /\ AuthenticateUser(DM, k, Str("pw1"), OkSave).ret = "User"

\* C8: for a user whose stored credential is classified as hashed,
\* authenticate_user(username, s) returns the User exactly when hash(s) is the
\* stored credential, and None otherwise.
C8_HashedAuthIffDigestMatches ==
    \A k \in Keys(users), s \in AuthSecrets, io \in AllSaveIO :
        IsHashed(Stored(k).password) =>
            LET r == AuthenticateUser(DM, k, s, io)
            IN  IF HashPassword(s) = Stored(k).password
                THEN r.ret = "User" /\ r.ref = Get(users, k)
                ELSE r.ret = "None"

C8_Witness ==
    \E k \in Keys(users) :
        /\ IsHashed(Stored(k).password)
        /\ AuthenticateUser(DM, k, Str("pw1"), OkSave).ret = "User"
        /\ AuthenticateUser(DM, k, Str("pw2"), OkSave).ret = "None"
        /\ AuthenticateUser(DM, k, Stored(k).password, OkSave).ret = "None"

\* what C9 says of authenticate_user(k, c) for a stored plaintext credential c,
\* but for the snapshot
UpgradeInMemory(k, r) ==
    LET c == Stored(k).password
    IN  /\ r.ret = "User" /\ r.ref = Get(users, k)
        /\ r.dm.heap[r.ref].password = HashPassword(c)
        /\ IsHashed(r.dm.heap[r.ref].password)
        /\ r.save # "none"
        /\ \A io2 \in AllSaveIO :
               AuthenticateUser(r.dm, k, c, io2).ret = "User"

\* C9 as claimed: for a user stored with a plaintext credential c,
\* authenticate_user(username, c) succeeds, the stored credential becomes
\* hash(c), the snapshot holds hash(c), and a later call still succeeds.
C9_UpgradeIsPersisted ==
    \A k \in Keys(users), io \in AllSaveIO :
        ~IsHashed(Stored(k).password) =>
            LET r == AuthenticateUser(DM, k, Stored(k).password, io)
            IN  /\ UpgradeInMemory(k, r)
                /\ SnapshotHas(r.dm.file, k, HashPassword(Stored(k).password))

\* C9 as amended: the snapshot holds hash(c) when the save inside update_user
\* succeeded.
C9_UpgradeIsPersistedWhenSaved ==
    \A k \in Keys(users), io \in AllSaveIO :
        ~IsHashed(Stored(k).password) =>
            LET r == AuthenticateUser(DM, k, Stored(k).password, io)
            IN  /\ UpgradeInMemory(k, r)
                /\ r.save = "ok" =>
                       SnapshotHas(r.dm.file, k, HashPassword(Stored(k).password))

C9_Witness ==
    /\ last.op = "authenticate_user" /\ last.ret = "User" /\ last.save = "ok"
    /\ \E k \in Keys(users) :
           /\ Stored(k).password = HashPassword(Str("pw1"))
           /\ SnapshotHas(file, k, HashPassword(Str("pw1")))
           /\ SnapshotHas(bak, k, Str("pw1"))

\* C10: authenticate_user with an unknown username, and with a known username
\* and a secret it does not accept, both return None and change neither the
\* registry, the User objects nor the files.
C10_FailedAuthUniform ==
    \A k \in Usernames, s \in AuthSecrets, io \in AllSaveIO :
        LET r == AuthenticateUser(DM, k, s, io)
        IN  (~Has(users, k) \/ r.ret # "User") =>
                r.ret = "None" /\ r.dm = DM /\ r.save = "none"

C10_Witness ==
    \E k1 \in Keys(users), k2 \in Usernames \ Keys(users), s \in AuthSecrets :
        /\ AuthenticateUser(DM, k1, s, OkSave).ret = "None"
        /\ AuthenticateUser(DM, k2, s, OkSave).ret = "None"
        /\ \E s2 \in AuthSecrets : AuthenticateUser(DM, k1, s2, OkSave).ret = "User"

\* C11: update_user with a User whose username is a key stores the hash of
\* the supplied credential when that credential differs from the stored one
\* and is not classified as hashed, and the supplied credential itself
\* otherwise; the key then maps to the supplied User, whose other fields are
\* untouched, and the registry is saved: save_data runs, its outcome is what
\* update_user returns, and when it succeeds the snapshot reloads to the
\* registry.
C11_UpdateStoresCredential ==
    \A ref \in DOMAIN heap, io \in AllSaveIO :
        LET user == heap[ref]
            k == user.username
            r == UpdateUser(DM, ref, io)
            expected == IF user.password # Stored(k).password
                             /\ ~IsHashed(user.password)
                        THEN HashPassword(user.password)
                        ELSE user.password
        IN  Has(users, k) =>
                /\ Keys(r.dm.users) = Keys(users)
                /\ Get(r.dm.users, k) = ref
                /\ r.dm.heap = [heap EXCEPT ![ref].password = expected]
                /\ \A k2 \in Keys(users) \ {k} : Get(r.dm.users, k2) = Get(users, k2)
                /\ r.save # "none"
                /\ (r.ret = "True") <=> (r.save = "ok")
                /\ r.save = "ok" =>
                       /\ SnapshotHas(r.dm.file, k, expected)
                       /\ Reloaded(r.dm.file, r.dm.bak)
                              = Registry(r.dm.users, r.dm.heap)

C11_Witness ==
    /\ last.op = "update_user" /\ last.ret = "True"
    /\ \E k \in Keys(users) :
           /\ Stored(k).password = HashPassword(Str("pw2"))
           /\ SnapshotHas(file, k, HashPassword(Str("pw2")))
    /\ \E ref \in DOMAIN heap :
           /\ Has(users, heap[ref].username)
           /\ Get(users, heap[ref].username) # ref
           /\ IsHashed(heap[ref].password)
           /\ UpdateUser(DM, ref, OkSave).dm.heap[ref].password = heap[ref].password

\* C12: update_user with a User whose username is not a key returns failure,
\* adds no entry, and leaves the registry, the User objects, the snapshot and
\* the backup as they were.
C12_UpdateUnknownRejected ==
    \A ref \in DOMAIN heap, io \in AllSaveIO :
        ~Has(users, heap[ref].username) =>
            LET r == UpdateUser(DM, ref, io)
            IN  r.ret = "False" /\ r.dm = DM /\ r.save = "none"

C12_Witness ==
    \E ref \in DOMAIN heap :
        /\ ~Has(users, heap[ref].username)
        /\ users # <<>>
        /\ file.exists
        /\ UpdateUser(DM, ref, OkSave).ret = "False"

\* C13: delete_user with a username that is not a key returns failure and
\* changes nothing; with a key, it removes that entry and no other, leaves the
\* User objects alone, get_user then finds nothing under it, and the registry
\* is saved: save_data runs, its outcome is what delete_user returns, and when
\* it succeeds the snapshot holds the remaining usernames only.
C13_DeleteRemovesExactlyOne ==
    \A k \in Usernames, io \in AllSaveIO :
        LET r == DeleteUser(DM, k, io)
        IN  IF ~Has(users, k)
            THEN r.ret = "False" /\ r.dm = DM /\ r.save = "none"
            ELSE /\ Keys(r.dm.users) = Keys(users) \ {k}
                 /\ \A k2 \in Keys(users) \ {k} : Get(r.dm.users, k2) = Get(users, k2)
                 /\ r.dm.heap = heap
                 /\ GetUser(r.dm, k).ret = "None"
                 /\ r.save # "none"
                 /\ (r.ret = "True") <=> (r.save = "ok")
                 /\ r.save = "ok" =>
                        /\ Parses(r.dm.file)
                        /\ {r.dm.file.entries[i].key : i \in DOMAIN r.dm.file.entries}
                               = Keys(users) \ {k}
                        /\ Reloaded(r.dm.file, r.dm.bak)
                               = Registry(r.dm.users, r.dm.heap)

C13_Witness ==
    /\ last.op = "delete_user" /\ last.ret = "True"
    /\ Cardinality(Keys(users)) = 1
    /\ Len(file.entries) = 1 /\ Len(bak.entries) = 2
    /\ \E k \in Usernames \ Keys(users) :
           /\ \E i \in DOMAIN bak.entries : bak.entries[i].key = k
           /\ GetUser(DM, k).ret = "None"
           /\ DeleteUser(DM, k, OkSave).ret = "False"

\* C14: get_user returns the User stored under the username, or None when
\* there is none, and leaves the registry, the User objects, the snapshot and
\* the backup as they were.
C14_GetUserIsPure ==
    \A k \in Usernames :
        LET r == GetUser(DM, k)
        IN  /\ r.dm = DM
            /\ r.save = "none" /\ r.bk = "none" /\ r.read = "none"
            /\ IF Has(users, k)
               THEN r.ret = "User" /\ r.ref = Get(users, k)
               ELSE r.ret = "None"

C14_Witness ==
    /\ file.exists /\ bak.exists
    /\ \E k1 \in Keys(users), k2 \in Usernames \ Keys(users) :
           /\ GetUser(DM, k1).ret = "User"
           /\ heap[GetUser(DM, k1).ref].username = k1
           /\ GetUser(DM, k2).ret = "None"

\* what C15 says of one call, given its result r
Atomic(r) ==
    IF r.ret = "True"
    THEN Reloaded(r.dm.file, r.dm.bak) = Registry(r.dm.users, r.dm.heap)
    ELSE r.dm.users = users /\ r.dm.heap = heap

\* C15: an add_user, update_user or delete_user call either returns success,
\* with the snapshot reloading to the new registry, or returns failure with
\* the in-memory registry (keys and User objects) exactly as before the call.
C15_MutatorsAtomic ==
    \A io \in AllSaveIO :
        /\ \A ref \in DOMAIN heap :
               Atomic(AddUser(DM, ref, io)) /\ Atomic(UpdateUser(DM, ref, io))
        /\ \A k \in Usernames : Atomic(DeleteUser(DM, k, io))

\* the I/O outcomes whose snapshot write fails
FailedWrites == {io \in AllSaveIO : io.wr # "ok"}

\* what C16 says of one call, given its result r and the registry us it
\* would have left had its save succeeded
KeepsMutation(r, us) ==
    r.save = "failed" =>
        /\ r.ret = "False"
        /\ r.dm.users = us
        /\ LET s == SaveData(r.dm, OkSave)
           IN  /\ s.ret = "True"
               /\ Reloaded(s.dm.file, s.dm.bak) = Registry(r.dm.users, r.dm.heap)

\* C16: when the save inside add_user, update_user or delete_user fails, the
\* call returns failure, the mutation stays in the in-memory registry (the
\* added or replaced entry maps to the supplied User, with its credential as
\* the call stores it; the deleted entry is gone), and a later save_data that
\* succeeds writes a snapshot that reloads to that registry.
C16_FailedSaveKeepsMutation ==
    \A io \in FailedWrites :
        /\ \A ref \in DOMAIN heap :
               LET k == heap[ref].username
                   a == AddUser(DM, ref, io)
                   u == UpdateUser(DM, ref, io)
               IN  /\ KeepsMutation(a, Put(users, k, ref))
                   /\ a.save = "failed" =>
                          /\ a.dm.users # users
                          /\ a.dm.heap = [heap EXCEPT ![ref].password =
                                              HashPassword(heap[ref].password)]
                   /\ KeepsMutation(u, Put(users, k, ref))
                   /\ u.save = "failed" =>
                          u.dm.heap = [heap EXCEPT ![ref].password =
                                          UpdatedPassword(heap[ref], Stored(k))]
        /\ \A k \in Usernames :
               LET d == DeleteUser(DM, k, io)
               IN  /\ KeepsMutation(d, DelKey(users, k))
                   /\ d.save = "failed" => d.dm.users # users /\ d.dm.heap = heap

C16_Witness ==
    /\ last.op \in Mutators /\ last.ret = "False" /\ last.save = "failed"
    /\ users # <<>>
    /\ Reloaded(file, bak) # Registry(users, heap)
    /\ LET s == SaveData(DM, OkSave)
       IN  s.ret = "True" /\ Reloaded(s.dm.file, s.dm.bak) = Registry(users, heap)

\* C17: no call of load_data, save_data, add_user, update_user, delete_user,
\* get_user or authenticate_user raises: whatever the registry holds, whatever
\* is passed in and whatever the I/O calls do, the call returns a value.
C17_NoCallRaises ==
    /\ \A io \in AllLoadIO : LoadData(DM, io).ret # "raised"
    /\ \A io \in AllSaveIO :
           /\ SaveData(DM, io).ret # "raised"
           /\ \A ref \in DOMAIN heap :
                  /\ AddUser(DM, ref, io).ret # "raised"
                  /\ UpdateUser(DM, ref, io).ret # "raised"
           /\ \A k \in Usernames :
                  /\ DeleteUser(DM, k, io).ret # "raised"
                  /\ GetUser(DM, k).ret # "raised"
                  /\ \A s \in AuthSecrets :
                         AuthenticateUser(DM, k, s, io).ret # "raised"

\* C18: when the snapshot parses and holds a record that cannot be decoded,
\* load_data returns normally, leaves that record out, and loads every record
\* that can be decoded.
C18_MalformedRecordSkipped ==
    (Parses(file) /\ \E i \in DOMAIN file.entries : ~DecodeUserOk(file.entries[i].val)) =>
        LET r == LoadData(NoDM(file, bak), OkLoad)
        IN  /\ r.ret = "None"
            /\ \A i \in DOMAIN file.entries :
                   LET e == file.entries[i]
                   IN  IF DecodeUserOk(e.val)
                       THEN /\ Has(r.dm.users, e.key)
                            /\ r.dm.heap[Get(r.dm.users, e.key)] = DecodeUser(e.val)
                       ELSE ~Has(r.dm.users, e.key)

\* C19: encoding a User as save_data does and decoding the result as
\* load_data does gives back a User equal in every field, with its workouts,
\* meals and goals in the same order and equal field by field, Goal.completed
\* and Goal.start_date included; so the snapshot written by a save reloads to
\* the registry.
C19_RoundTrip ==
    /\ \A ref \in DOMAIN heap :
           /\ DecodeUserOk(EncodeUser(heap[ref]))
           /\ DecodeUser(EncodeUser(heap[ref])) = heap[ref]
    /\ LET s == SaveData(DM, OkSave)
       IN  Reloaded(s.dm.file, s.dm.bak) = Registry(users, heap)

C19_Witness ==
    /\ last.op = "__init__"
    /\ \E k \in Keys(users) :
           LET u == Stored(k)
           IN  /\ Len(u.workouts) = 2 /\ u.workouts[1] # u.workouts[2]
               /\ Len(u.meals) = 1
               /\ Len(u.goals) = 2
               /\ u.goals[1].completed /\ ~u.goals[2].completed
               /\ u.goals[1].start_date # u.goals[2].start_date
               /\ file.entries[1].val = EncodeUser(u)
               /\ DecodeUser(file.entries[1].val) = u

\* C20: two load_data calls in succession, with the file equally readable on
\* both and nothing written in between, leave equal registries, whatever the
\* snapshot file is (absent, parseable, unparseable, holding a malformed
\* record) and whether the first call is the one a new DataManager makes or a
\* call on a DataManager in use.
C20_LoadIdempotent ==
    \A io1 \in AllLoadIO, io2 \in AllLoadIO, dm0 \in {DM, NoDM(file, bak)} :
        io1.rd = io2.rd =>
            LET r1 == LoadData(dm0, io1)
                r2 == LoadData(r1.dm, io2)
            IN  /\ r1.ret = "None" /\ r2.ret = "None"
                /\ Registry(r2.dm.users, r2.dm.heap) = Registry(r1.dm.users, r1.dm.heap)

C20_Witness ==
    /\ last.op = "load_data"
    /\ users # <<>>
    /\ Parses(file) /\ file.entries # <<>>
    /\ LET r2 == LoadData(DM, OkLoad)
       IN  /\ Registry(r2.dm.users, r2.dm.heap) = Registry(users, heap)
           /\ Len(r2.dm.heap) > Len(heap)

\* C21: when the copy of the existing snapshot to the backup path fails inside
\* save_data, the write of the new snapshot is still attempted, and when that
\* write succeeds save_data returns success and the snapshot file holds the
\* registry.
C21_SaveProceedsWithoutBackup ==
    \A io \in AllSaveIO :
        LET r == SaveData(DM, io)
        IN  (file.exists /\ r.bk = "failed") =>
                /\ r.save # "none"
                /\ io.wr = "ok" =>
                       /\ r.ret = "True"
                       /\ r.dm.file = JsonText(Encode(users, heap))
                       /\ Reloaded(r.dm.file, r.dm.bak) = Registry(users, heap)

C21_Witness ==
    /\ last.op = "save_data" /\ last.bk = "failed" /\ last.ret = "True"
    /\ users # <<>>
    /\ bak # hist.good
    /\ file = JsonText(Encode(users, heap))

\* the threads that are between the check of their add_user and its return
Inside == {t \in Threads : threads[t].pc \notin {"idle", "check", "done"}}

\* C22: calls made by concurrent callers are serialized: the check, the
\* in-memory change and the save of one call never interleave with those of
\* another, two add_user calls with the same username never both return
\* success, and once every call has returned the snapshot written last
\* reloads to the in-memory registry.
C22_OperationsSerialized ==
    /\ Cardinality(Inside) <= 1
    /\ \A t1, t2 \in Threads :
           (/\ t1 # t2
            /\ threads[t1].ret = "True" /\ threads[t2].ret = "True")
               => heap[threads[t1].ref].username # heap[threads[t2].ref].username
    /\ ((\A t \in Threads : threads[t].pc = "done")
           /\ (\E t \in Threads : threads[t].ret = "True"))
          => Reloaded(file, bak) = Registry(users, heap)

\* C23: _is_hashed(value) returns true exactly when value has 64 characters
\* and each of them is one of 0-9, a-f, A-F; a text of 64 characters with a
\* sign, a 0x prefix, an underscore or white space in it is not classified as
\* hashed.
C23_IsHashedIffHex ==
    probe.result # "none" =>
        ((probe.result = "True") <=>
            (/\ Len(probe.value) = HashLen
             /\ \A i \in DOMAIN probe.value : probe.value[i] \in HexDigits))

\* C24: when the stored credential of a user is a plaintext c that is
\* classified as hashed, authenticate_user(username, c) fails, no
\* authenticate_user call upgrades or otherwise changes the credential, and a
\* call succeeds only for a secret whose hash is c.
C24_HexPlaintextNeverUpgraded ==
    \A k \in Keys(users), io \in AllSaveIO :
        LET c == Stored(k).password
        IN  (c.d = 0 /\ IsHashed(c)) =>
                /\ AuthenticateUser(DM, k, c, io).ret = "None"
                /\ \A s \in AuthSecrets :
                       LET r == AuthenticateUser(DM, k, s, io)
                       IN  /\ r.dm = DM
                           /\ r.save = "none"
                           /\ r.ret = "User" => HashPassword(s) = c

C24_Witness ==
    /\ last.op = "update_user" /\ last.ret = "True"
    /\ \E k1, k2 \in Keys(users) :
           /\ k1 # k2
           /\ Stored(k1).password = Str("c0ffee64")
           /\ Stored(k2).password = Str("c0ffee64")
           /\ SnapshotHas(file, k1, Str("c0ffee64"))
           /\ SnapshotHas(bak, k1, Str("pw1"))
           /\ AuthenticateUser(DM, k1, Str("c0ffee64"), OkSave).ret = "None"

Calls == Mutators \cup {"authenticate_user"}

\* C25: in a registry that started empty, after every add_user, update_user,
\* delete_user and authenticate_user call each credential held in memory and
\* each credential in the snapshot is classified as hashed, also when the
\* caller had assigned a new plaintext password to a stored User and passed
\* that User to update_user.
C25_CredentialsAlwaysHashed ==
    last.op \in Calls =>
        /\ \A k \in Keys(users) : IsHashed(Stored(k).password)
        /\ \A i \in DOMAIN file.entries : IsHashed(file.entries[i].val.password)

\* C26: when add_user(u) returns failure because its save failed, u stays in
\* the in-memory registry under its username with its password replaced by
\* the hash, the call has written no readable snapshot (the file is as before
\* or does not parse), every later add_user with that username is rejected as
\* a duplicate without a save and without any change, and a later save that
\* succeeds makes the user durable.
C26_FailedAddStaysInMemory ==
    \A ref \in DOMAIN heap, io \in FailedWrites :
        LET k == heap[ref].username
            a == AddUser(DM, ref, io)
            s == SaveData(a.dm, OkSave)
        IN  a.save = "failed" =>
                /\ a.ret = "False"
                /\ Has(a.dm.users, k) /\ Get(a.dm.users, k) = ref
                /\ a.dm.heap[ref].password = HashPassword(heap[ref].password)
                /\ a.dm.file = file \/ ~Parses(a.dm.file)
                /\ \A ref2 \in DOMAIN heap, io2 \in AllSaveIO :
                       heap[ref2].username = k =>
                           LET a2 == AddUser(a.dm, ref2, io2)
                           IN  a2.ret = "False" /\ a2.save = "none" /\ a2.dm = a.dm
                /\ s.ret = "True"
                /\ SnapshotHas(s.dm.file, k, HashPassword(heap[ref].password))

C26_Witness ==
    /\ last.op = "add_user" /\ last.ret = "False" /\ last.save = "failed"
    /\ \E k \in Keys(users), ref2 \in DOMAIN heap :
           /\ Stored(k).password = HashPassword(Str("pw1"))
           /\ ~SnapshotHas(file, k, Stored(k).password)
           /\ heap[ref2].username = k /\ ref2 # Get(users, k)
           /\ AddUser(DM, ref2, OkSave).ret = "False"
           /\ AddUser(DM, ref2, OkSave).save = "none"
           /\ SnapshotHas(SaveData(DM, OkSave).dm.file, k, Stored(k).password)

\* C27: for a user whose stored credential c is not classified as hashed,
\* authenticate_user(username, c) returns the User whether the save of the
\* upgraded credential succeeds or fails, and after the call the credential
\* in memory is hash(c); when the write could not start, the snapshot file is
\* as before the call.
C27_LegacyLoginIgnoresSave ==
    \A k \in Keys(users), io \in AllSaveIO :
        LET c == Stored(k).password
            r == AuthenticateUser(DM, k, c, io)
        IN  ~IsHashed(c) =>
                /\ r.ret = "User" /\ r.ref = Get(users, k)
                /\ r.save = (IF io.wr = "ok" THEN "ok" ELSE "failed")
                /\ r.dm.heap = [heap EXCEPT ![r.ref].password = HashPassword(c)]
                /\ IsHashed(r.dm.heap[r.ref].password)
                /\ io.wr = "open" => r.dm.file = file

C27_Witness ==
    /\ last.op = "authenticate_user" /\ last.ret = "User" /\ last.save = "failed"
    /\ \E k \in Keys(users) :
           /\ Stored(k).password = HashPassword(Str("pw1"))
           /\ SnapshotHas(file, k, Str("pw1"))
           /\ Reloaded(file, bak)[k].password = Str("pw1")

\* what C28 says of one call, given its result r
NoDiskAccess(r) ==
    /\ r.save = "none" /\ r.bk = "none" /\ r.read = "none"
    /\ r.dm.file = file /\ r.dm.bak = bak

\* C28: an add_user rejected as a duplicate, an update_user or delete_user
\* rejected for an unknown username, and every authenticate_user call on a
\* user whose stored credential is classified as hashed, successful or not,
\* attempt no save and leave the snapshot file and the backup file as they
\* were.
C28_RejectedCallsLeaveDisk ==
    \A io \in AllSaveIO :
        /\ \A ref \in DOMAIN heap :
               IF Has(users, heap[ref].username)
               THEN NoDiskAccess(AddUser(DM, ref, io))
               ELSE NoDiskAccess(UpdateUser(DM, ref, io))
        /\ \A k \in Usernames \ Keys(users) : NoDiskAccess(DeleteUser(DM, k, io))
        /\ \A k \in Keys(users), s \in AuthSecrets :
               IsHashed(Stored(k).password) =>
                   NoDiskAccess(AuthenticateUser(DM, k, s, io))

C28_Witness ==
    /\ file.exists /\ bak.exists /\ file # bak
    /\ \E ref1, ref2 \in DOMAIN heap, k \in Keys(users) :
           /\ AddUser(DM, ref1, OkSave).ret = "False"
           /\ UpdateUser(DM, ref2, OkSave).ret = "False"
           /\ DeleteUser(DM, heap[ref2].username, OkSave).ret = "False"
           /\ IsHashed(Stored(k).password)
           /\ AuthenticateUser(DM, k, Str("pw1"), OkSave).ret = "User"
           /\ AuthenticateUser(DM, k, Str("pw2"), OkSave).ret = "None"

\* C29: in a registry that started empty, whatever add_user, update_user,
\* delete_user and authenticate_user calls were made, as long as callers assign
\* usernames only to Users that are not in the registry, every key maps to a
\* User whose username is that key and no two keys map to the same User
\* object.
C29_KeysMatchUsernames ==
    /\ \A k \in Keys(users) : Stored(k).username = k
    /\ \A i, j \in DOMAIN users : users[i].ref = users[j].ref => i = j

C29_Witness ==
    /\ last.op = "add_user" /\ last.ret = "True"
    /\ Len(heap) = 2 /\ StoredRefs(users) = {1, 2}
    /\ Has(users, "carol") /\ Stored("carol").username = "carol"
    /\ Len(file.entries) = 2
    /\ \E i \in DOMAIN bak.entries : bak.entries[i].key = "carol"

\* what every class and member satisfy whatever the capacity: the counter is
\* the number of enrolled members, nobody is enrolled twice, and the two lists
\* agree
GymInSync ==
    /\ \A c \in DOMAIN gym.classes :
           LET cls == gym.classes[c]
           IN  /\ cls.current_enrollments = Len(cls.enrolled_members)
               /\ \A i, j \in DOMAIN cls.enrolled_members :
                      cls.enrolled_members[i] = cls.enrolled_members[j] => i = j
    /\ \A c \in DOMAIN gym.classes, m \in DOMAIN gym.members :
           In(gym.classes[c].enrolled_members, m)
               <=> In(gym.members[m].class_bookings, c)

\* C30 as claimed: after any sequence of book_class, enroll_member,
\* cancel_booking and cancel_membership calls, in every class
\* current_enrollments is the number of enrolled members and is at most the
\* capacity, no member is enrolled twice, and a member is enrolled in a class
\* exactly when the class is among the member's bookings.
C30_GymConsistent ==
    /\ GymInSync
    /\ \A c \in DOMAIN gym.classes :
           Numeric(gym.classes[c].capacity) =>
               gym.classes[c].current_enrollments <= IntOf(gym.classes[c].capacity)

\* C30 as amended: the same, with the bound on current_enrollments being the
\* capacity when that is a whole number of at least 0, and 0 for any other
\* capacity.
C30_GymConsistentUpToCapacity ==
    /\ GymInSync
    /\ \A c \in DOMAIN gym.classes :
           LET cls == gym.classes[c]
           IN  IF Numeric(cls.capacity) /\ IntOf(cls.capacity) >= 0
               THEN cls.current_enrollments <= IntOf(cls.capacity)
               ELSE cls.current_enrollments = 0

C30_Witness ==
    /\ gym.last.op = "cancel_membership"
    /\ \E m1, m2 \in DOMAIN gym.members, c1, c2 \in DOMAIN gym.classes :
           /\ ~gym.members[m1].listed /\ gym.members[m1].class_bookings = <<>>
           /\ gym.members[m2].class_bookings = <<c1, c2>>
           /\ gym.classes[c1].capacity = "1" /\ gym.classes[c1].current_enrollments = 1
           /\ gym.classes[c2].capacity = "2" /\ gym.classes[c2].current_enrollments = 1
           /\ BookClass(gym, m1, c1).ret = "False"
           /\ BookClass(gym, m1, c2).ret = "True"

====
